---------------------------- MODULE Spec2Model ----------------------------
(***************************************************************************)
(* Hotel room reservation (src/src/App.js): the room inventory, the        *)
(* travel-time cost, the combination generator, the two-phase search       *)
(* findBestRoomsToBook and the three handlers that change occupancy.       *)
(*                                                                         *)
(* The inventory is the source's, cut down: floors 1..LowFloors with       *)
(* RoomsPerFloor rooms each (source: 9 floors of 10) and floor 10 with     *)
(* TopFloorRooms rooms (source: 7).  Every room of the model is a room of  *)
(* the source, with the source's number, floor and position.               *)
(***************************************************************************)
EXTENDS Integers, Sequences, FiniteSets, TLC

(* ------------------------------ bounds -------------------------------- *)
LowFloors == 3
RoomsPerFloor == 5
TopFloorRooms == 1
\* Math.random() is drawn from {0/g, 1/g, .., (g-1)/g}: g = RandomCountGrain
\* for the draw that sets numToOccupy, g = RandomPickGrain for each index draw.
RandomCountGrain == 3
RandomPickGrain == 2
\* The value typed into the number field is one decimal digit 0..MaxInputDigit.
MaxInputDigit == 6
\* getCombinations on its own: arrays of at most MaxLen distinct items.
MaxLen == 4

(* ------------------------- program constants -------------------------- *)
TopFloor == 10
MaxRoomsPerBooking == 5
Infinity == 999999
HorizontalMinutes == 1
VerticalMinutes == 2

VARIABLES
    rooms,           \* useState: the inventory, in creation order
    numRoomsToBook,  \* useState: the value of the number field, as digits
    message,         \* useState: the message left by the last handler
    roomsToBook,     \* what findBestRoomsToBook returned to the last handler
    searchMessage,   \* the message findBestRoomsToBook set in the last handler
    handler,         \* the handler that ran last
    afterReset,      \* whether the last handler was a booking made right
                     \* after a reset (its message was still shown)
    array, k,        \* getCombinations on its own: its arguments,
    called, result   \* whether it has been called, and what it returned

vars == <<rooms, numRoomsToBook, message, roomsToBook, searchMessage,
          handler, afterReset, array, k, called, result>>
hotelVars == <<rooms, numRoomsToBook, message, roomsToBook, searchMessage,
               handler, afterReset>>
combVars == <<array, k, called, result>>

(* ------------------------------ helpers ------------------------------- *)
Abs(x) == IF x < 0 THEN -x ELSE x

Min(a, b) == IF a < b THEN a ELSE b

Range(s) == {s[i] : i \in DOMAIN s}

RoomNumbers(s) == {s[i].roomNumber : i \in DOMAIN s}

(* ------------------------------- Room --------------------------------- *)
Room(roomNumber, floor) ==
    [roomNumber |-> roomNumber, floor |-> floor, isOccupied |-> FALSE]

(* ------------------------- travel-time model -------------------------- *)
getRoomPositionOnFloor(room) ==
    IF room.floor >= 1 /\ room.floor <= 9
    THEN (IF room.roomNumber % 10 = 0 THEN 10 ELSE room.roomNumber % 10)
    ELSE IF room.floor = 10 THEN room.roomNumber - 1000
    ELSE 0

\* Faulty variant of calculateTravelTime: across floors, the distance between the two
\* positions instead of the two walks to and from the lift.
calculateTravelTime_Direct(room1, room2) ==
    LET pos1 == getRoomPositionOnFloor(room1)
        pos2 == getRoomPositionOnFloor(room2)
    IN  Abs(pos1 - pos2) * HorizontalMinutes
        + Abs(room1.floor - room2.floor) * VerticalMinutes

calculateTravelTime(room1, room2) ==
    LET pos1 == getRoomPositionOnFloor(room1)
        pos2 == getRoomPositionOnFloor(room2)
    IN  IF room1.floor = room2.floor
        THEN Abs(pos1 - pos2) * HorizontalMinutes
        ELSE LET timeToLiftFromRoom1 == (pos1 - 1) * HorizontalMinutes
                 timeFromLiftToRoom2 == (pos2 - 1) * HorizontalMinutes
                 verticalTravelTime ==
                     Abs(room1.floor - room2.floor) * VerticalMinutes
             IN  timeToLiftFromRoom1 + verticalTravelTime + timeFromLiftToRoom2

\* The comparator of the sort in calculateSetTravelTime: a before b.
RoomBefore(a, b) ==
    IF a.floor # b.floor THEN a.floor - b.floor < 0
    ELSE a.roomNumber - b.roomNumber < 0

RECURSIVE InsertRoom(_, _)
InsertRoom(r, sorted) ==
    IF sorted = << >> THEN <<r>>
    ELSE IF RoomBefore(r, Head(sorted)) THEN <<r>> \o sorted
    ELSE <<Head(sorted)>> \o InsertRoom(r, Tail(sorted))

\* [...roomSet].sort(comparator): a stable sort, here by insertion from the end.
RECURSIVE SortRooms(_)
SortRooms(roomSet) ==
    IF roomSet = << >> THEN << >>
    ELSE InsertRoom(Head(roomSet), SortRooms(Tail(roomSet)))

calculateSetTravelTime(roomSet) ==
    IF Len(roomSet) <= 1 THEN 0
    ELSE LET sortedRooms == SortRooms(roomSet)
             firstRoom == sortedRooms[1]
             lastRoom == sortedRooms[Len(sortedRooms)]
         IN  calculateTravelTime(firstRoom, lastRoom)

(* ---------------------------- inventory ------------------------------- *)
RECURSIVE FloorRooms(_, _, _)
FloorRooms(floor, i, n) ==
    IF i > n THEN << >>
    ELSE <<Room(floor * 100 + i, floor)>> \o FloorRooms(floor, i + 1, n)

RECURSIVE LowerFloorRooms(_)
LowerFloorRooms(floor) ==
    IF floor > LowFloors THEN << >>
    ELSE FloorRooms(floor, 1, RoomsPerFloor) \o LowerFloorRooms(floor + 1)

RECURSIVE TopRooms(_)
TopRooms(i) ==
    IF i > TopFloorRooms THEN << >>
    ELSE <<Room(1000 + i, TopFloor)>> \o TopRooms(i + 1)

initialRooms == LowerFloorRooms(1) \o TopRooms(1)

(* ----------------------- combination generator ------------------------ *)
\* Faulty variant of f: the branch that leaves the head out runs first.
RECURSIVE f_ExcludeFirst(_, _, _)
f_ExcludeFirst(prefix, arr, kk) ==
    IF kk = 0 THEN <<prefix>>
    ELSE IF Len(arr) = 0 THEN << >>
    ELSE LET head == arr[1]
             tail == SubSeq(arr, 2, Len(arr))
         IN  f_ExcludeFirst(prefix, tail, kk)
             \o f_ExcludeFirst(prefix \o <<head>>, tail, kk - 1)

\* The inner function f of getCombinations; the value is what the call
\* pushes on result, in push order.
RECURSIVE f(_, _, _)
f(prefix, arr, kk) ==
    IF kk = 0 THEN <<prefix>>
    ELSE IF Len(arr) = 0 THEN << >>
    ELSE LET head == arr[1]
             tail == SubSeq(arr, 2, Len(arr))
         IN  f(prefix \o <<head>>, tail, kk - 1) \o f(prefix, tail, kk)

getCombinations(arr, kk) == f(<< >>, arr, kk)

(* ------------------------------ messages ------------------------------ *)
Msg(kind, n, list) == [kind |-> kind, n |-> n, list |-> list]

NoMessage == Msg("", 0, << >>)

(* ------------------------------ allocator ----------------------------- *)
\* Faulty variant of ConsiderCombination: "<=" for "<", so the last of equally good
\* combinations wins.
ConsiderCombination_LastWins(combo, best) ==
    LET currentTravelTime == calculateSetTravelTime(combo)
    IN  IF currentTravelTime <= best.minTotalTravelTime
        THEN [bestBookingCandidate |-> combo,
              minTotalTravelTime |-> currentTravelTime]
        ELSE best

\* One turn of "for (const combo of combos)": the running best
\* [bestBookingCandidate, minTotalTravelTime] after combo.
ConsiderCombination(combo, best) ==
    LET currentTravelTime == calculateSetTravelTime(combo)
    IN  IF currentTravelTime < best.minTotalTravelTime
        THEN [bestBookingCandidate |-> combo,
              minTotalTravelTime |-> currentTravelTime]
        ELSE best

\* The loop over combos[lo..hi] in index order, started with best.  The range
\* is run as two halves, one after the other; comparing the first half's
\* result with best makes the evaluation finish the first half before the
\* second starts, and both branches continue with that result.
RECURSIVE ScanCombinations(_, _, _, _)
ScanCombinations(combos, lo, hi, best) ==
    IF lo > hi THEN best
    ELSE IF lo = hi THEN ConsiderCombination(combos[lo], best)
    ELSE LET mid == (lo + hi) \div 2
             firstHalf == ScanCombinations(combos, lo, mid, best)
         IN  IF firstHalf = best
             THEN ScanCombinations(combos, mid + 1, hi, best)
             ELSE ScanCombinations(combos, mid + 1, hi, firstHalf)

\* Faulty variant of availableOn: the filter forgets "!room.isOccupied".
availableOn_AnyRoom(rs, floor) ==
    LET Keep(room) == room.floor = floor
    IN  SelectSeq(rs, Keep)

availableOn(rs, floor) ==
    LET Keep(room) == ~room.isOccupied /\ room.floor = floor
    IN  SelectSeq(rs, Keep)

\* "for (let floor = 1; floor <= 10; floor++)" of phase 1.
RECURSIVE ScanFloors(_, _, _, _)
ScanFloors(rs, floor, requestedNumRooms, best) ==
    IF floor > TopFloor THEN best
    ELSE LET availableOnCurrentFloor == availableOn(rs, floor)
         IN  IF Len(availableOnCurrentFloor) >= requestedNumRooms
             THEN ScanFloors(rs, floor + 1, requestedNumRooms,
                      LET floorCombinations ==
                              getCombinations(availableOnCurrentFloor,
                                              requestedNumRooms)
                      IN  ScanCombinations(floorCombinations, 1,
                                           Len(floorCombinations), best))
             ELSE ScanFloors(rs, floor + 1, requestedNumRooms, best)

NoCandidate ==
    [bestBookingCandidate |-> << >>, minTotalTravelTime |-> Infinity]

allAvailable(rs) ==
    LET Keep(room) == ~room.isOccupied
    IN  SelectSeq(rs, Keep)

\* Faulty variant of findBestRoomsToBook: the first test is "< 0" for "<= 0".
findBestRoomsToBook_AcceptsZero(rs, requestedNumRooms) ==
    IF requestedNumRooms < 0 \/ requestedNumRooms > MaxRoomsPerBooking
    THEN [rooms |-> << >>, message |-> Msg("BetweenOneAndFive", 0, << >>)]
    ELSE
    LET availableRooms == allAvailable(rs) IN
    IF Len(availableRooms) < requestedNumRooms
    THEN [rooms |-> << >>,
          message |-> Msg("NotEnough", Len(availableRooms), << >>)]
    ELSE
    LET sameFloor == ScanFloors(rs, 1, requestedNumRooms, NoCandidate) IN
    IF Len(sameFloor.bestBookingCandidate) > 0
    THEN [rooms |-> sameFloor.bestBookingCandidate,
          message |-> Msg("FoundSameFloor", sameFloor.minTotalTravelTime,
                          <<sameFloor.bestBookingCandidate[1].floor>>)]
    ELSE
    LET allCombinations == getCombinations(availableRooms, requestedNumRooms)
        spanning == ScanCombinations(allCombinations, 1,
                                    Len(allCombinations), NoCandidate)
    IN  IF Len(spanning.bestBookingCandidate) > 0
        THEN [rooms |-> spanning.bestBookingCandidate,
              message |-> Msg("FoundSpanning", spanning.minTotalTravelTime,
                              << >>)]
        ELSE [rooms |-> << >>, message |-> Msg("CouldNotFind", 0, << >>)]

\* Faulty variant of findBestRoomsToBook: the cheapest subset of all unoccupied rooms
\* is taken at once, whether or not one floor could hold the booking.
findBestRoomsToBook_GlobalMinimum(rs, requestedNumRooms) ==
    IF requestedNumRooms <= 0 \/ requestedNumRooms > MaxRoomsPerBooking
    THEN [rooms |-> << >>, message |-> Msg("BetweenOneAndFive", 0, << >>)]
    ELSE
    LET availableRooms == allAvailable(rs) IN
    IF Len(availableRooms) < requestedNumRooms
    THEN [rooms |-> << >>,
          message |-> Msg("NotEnough", Len(availableRooms), << >>)]
    ELSE
    LET allCombinations == getCombinations(availableRooms, requestedNumRooms)
        spanning == ScanCombinations(allCombinations, 1,
                                    Len(allCombinations), NoCandidate)
    IN  [rooms |-> spanning.bestBookingCandidate,
         message |-> Msg("FoundSpanning", spanning.minTotalTravelTime, << >>)]

\* The returned rooms and the message the search leaves behind.
findBestRoomsToBook(rs, requestedNumRooms) ==
    IF requestedNumRooms <= 0 \/ requestedNumRooms > MaxRoomsPerBooking
    THEN [rooms |-> << >>, message |-> Msg("BetweenOneAndFive", 0, << >>)]
    ELSE
    LET availableRooms == allAvailable(rs) IN
    IF Len(availableRooms) < requestedNumRooms
    THEN [rooms |-> << >>,
          message |-> Msg("NotEnough", Len(availableRooms), << >>)]
    ELSE
    LET sameFloor == ScanFloors(rs, 1, requestedNumRooms, NoCandidate) IN
    IF Len(sameFloor.bestBookingCandidate) > 0
    THEN [rooms |-> sameFloor.bestBookingCandidate,
          message |-> Msg("FoundSameFloor", sameFloor.minTotalTravelTime,
                          <<sameFloor.bestBookingCandidate[1].floor>>)]
    ELSE
    LET allAvailableRooms == allAvailable(rs)
        allCombinations == getCombinations(allAvailableRooms, requestedNumRooms)
        spanning == ScanCombinations(allCombinations, 1,
                                    Len(allCombinations), NoCandidate)
    IN  IF Len(spanning.bestBookingCandidate) > 0
        THEN [rooms |-> spanning.bestBookingCandidate,
              message |-> Msg("FoundSpanning", spanning.minTotalTravelTime,
                              << >>)]
        ELSE [rooms |-> << >>, message |-> Msg("CouldNotFind", 0, << >>)]

(* ------------------------------ handlers ------------------------------ *)
\* parseInt(numRoomsToBook, 10) on a string of decimal digits.
RECURSIVE parseInt(_)
parseInt(digits) ==
    IF digits = << >> THEN 0
    ELSE parseInt(SubSeq(digits, 1, Len(digits) - 1)) * 10 + digits[Len(digits)]

InputValues == {<<d>> : d \in 0..MaxInputDigit}

\* Faulty variant of MarkOccupied: the rooms are matched by floor, not by number.
MarkOccupied_WholeFloor(prevRooms, chosen) ==
    [i \in DOMAIN prevRooms |->
        IF \E j \in DOMAIN chosen : chosen[j].floor = prevRooms[i].floor
        THEN [prevRooms[i] EXCEPT !.isOccupied = TRUE]
        ELSE prevRooms[i]]

\* prevRooms.map(room => chosen.some(c => c.roomNumber === room.roomNumber)
\*                        ? {...room, isOccupied: true} : room)
MarkOccupied(prevRooms, chosen) ==
    [i \in DOMAIN prevRooms |->
        IF \E j \in DOMAIN chosen :
               chosen[j].roomNumber = prevRooms[i].roomNumber
        THEN [prevRooms[i] EXCEPT !.isOccupied = TRUE]
        ELSE prevRooms[i]]

\* onChange of the number field: setNumRoomsToBook(e.target.value)
handleNumRoomsChange ==
    /\ handler' = "handleNumRoomsChange"
    /\ afterReset' = FALSE
    /\ \E v \in InputValues : numRoomsToBook' = v
    /\ UNCHANGED <<rooms, message, roomsToBook, searchMessage>>
    /\ UNCHANGED combVars

\* Faulty variant of handleBookRooms: the rooms found are reported, but setRooms is
\* not called.
handleBookRooms_NoCommit ==
    /\ handler' = "handleBookRooms"
    /\ afterReset' = (message.kind = "Reset")
    /\ LET found == findBestRoomsToBook(rooms, parseInt(numRoomsToBook))
       IN
        /\ roomsToBook' = found.rooms
        /\ searchMessage' = found.message
        /\ rooms' = rooms
        /\ IF Len(found.rooms) > 0
           THEN message' = Msg("Booked", 0,
                               [i \in DOMAIN found.rooms |->
                                   found.rooms[i].roomNumber])
           ELSE message' = found.message
        /\ UNCHANGED numRoomsToBook
        /\ UNCHANGED combVars

handleBookRooms ==
    /\ handler' = "handleBookRooms"
    /\ afterReset' = (message.kind = "Reset")
    /\ LET found == findBestRoomsToBook(rooms, parseInt(numRoomsToBook))
       IN
        /\ roomsToBook' = found.rooms
        /\ searchMessage' = found.message
        /\ IF Len(found.rooms) > 0
           THEN /\ rooms' = MarkOccupied(rooms, found.rooms)
                /\ message' = Msg("Booked", 0,
                                  [i \in DOMAIN found.rooms |->
                                      found.rooms[i].roomNumber])
           ELSE /\ rooms' = rooms
                /\ message' = found.message
        /\ UNCHANGED numRoomsToBook
        /\ UNCHANGED combVars

\* Faulty variant of handleResetBookings: only the rooms of floor 1 are freed.
handleResetBookings_FirstFloor ==
    /\ handler' = "handleResetBookings"
    /\ afterReset' = FALSE
    /\ rooms' = [i \in DOMAIN rooms |->
                    IF rooms[i].floor = 1
                    THEN [rooms[i] EXCEPT !.isOccupied = FALSE]
                    ELSE rooms[i]]
    /\ message' = Msg("Reset", 0, << >>)
    /\ roomsToBook' = << >>
    /\ searchMessage' = NoMessage
    /\ UNCHANGED numRoomsToBook
    /\ UNCHANGED combVars

handleResetBookings ==
    /\ handler' = "handleResetBookings"
    /\ afterReset' = FALSE
    /\ rooms' = [i \in DOMAIN rooms |-> [rooms[i] EXCEPT !.isOccupied = FALSE]]
    /\ message' = Msg("Reset", 0, << >>)
    /\ roomsToBook' = << >>
    /\ searchMessage' = NoMessage
    /\ UNCHANGED numRoomsToBook
    /\ UNCHANGED combVars

\* Math.floor(Math.random() * (totalRooms*0.5 - totalRooms*0.1) + totalRooms*0.1)
\* with Math.random() = r / RandomCountGrain.
numToOccupyFor(totalRooms, r) ==
    (r * (totalRooms * 5 - totalRooms) + totalRooms * RandomCountGrain)
        \div (10 * RandomCountGrain)

\* Math.floor(Math.random() * tempAvailable.length), Math.random() = r / RandomPickGrain.
randomIndexFor(len, r) == (r * len) \div RandomPickGrain

\* Faulty variant of Splice: the picked element is not removed.
Splice_KeepsElement(s, randomIndex) == s

\* tempAvailable.splice(randomIndex, 1): the array without the element at the
\* 0-based randomIndex.
Splice(s, randomIndex) ==
    SubSeq(s, 1, randomIndex) \o SubSeq(s, randomIndex + 2, Len(s))

\* The loop "for (let i = 0; i < actualNumToOccupy; i++)": draws[i+1] is the
\* i-th draw of Math.random().
RECURSIVE PickRooms(_, _, _)
PickRooms(tempAvailable, draws, i) ==
    IF i > Len(draws) THEN << >>
    ELSE LET randomIndex == randomIndexFor(Len(tempAvailable), draws[i])
         IN  <<tempAvailable[randomIndex + 1]>>
             \o PickRooms(Splice(tempAvailable, randomIndex), draws, i + 1)

handleGenerateRandomOccupancy ==
    /\ handler' = "handleGenerateRandomOccupancy"
    /\ afterReset' = FALSE
    /\ \E r \in 0..(RandomCountGrain - 1) :
        LET totalRooms == Len(rooms)
            numToOccupy == numToOccupyFor(totalRooms, r)
            availableRooms == allAvailable(rooms)
            actualNumToOccupy == Min(numToOccupy, Len(availableRooms))
        IN  \E draws \in [1..actualNumToOccupy -> 0..(RandomPickGrain - 1)] :
                LET roomsToOccupy == PickRooms(availableRooms, draws, 1)
                IN  /\ rooms' = MarkOccupied(rooms, roomsToOccupy)
                    /\ message' = Msg("Random", actualNumToOccupy, << >>)
                    /\ roomsToBook' = << >>
                    /\ searchMessage' = NoMessage
                    /\ UNCHANGED numRoomsToBook
                    /\ UNCHANGED combVars

(* --------------------------- specification ---------------------------- *)
Init ==
    /\ rooms = initialRooms
    /\ numRoomsToBook = <<1>>
    /\ message = NoMessage
    /\ roomsToBook = << >>
    /\ searchMessage = NoMessage
    /\ handler = "useEffect"
    /\ afterReset = FALSE
    /\ array = << >>
    /\ k = 0
    /\ called = FALSE
    /\ result = << >>

Next ==
    \/ handleNumRoomsChange
    \/ handleBookRooms
    \/ handleResetBookings
    \/ handleGenerateRandomOccupancy

Spec == Init /\ [][Next]_vars

(* ---- a caller that keeps booking a fixed count, and nobody resets ----- *)
InitExhaust ==
    /\ rooms = initialRooms
    /\ numRoomsToBook \in {<<d>> : d \in 1..MaxRoomsPerBooking}
    /\ message = NoMessage
    /\ roomsToBook = << >>
    /\ searchMessage = NoMessage
    /\ handler = "useEffect"
    /\ afterReset = FALSE
    /\ array = << >>
    /\ k = 0
    /\ called = FALSE
    /\ result = << >>

NextExhaust ==
    \/ handleGenerateRandomOccupancy
    \/ handleBookRooms

\* The buttons keep being pressed for as long as a press changes what the
\* page shows: the page is not left alone while rooms can still be taken or a
\* booking has not been answered.
SpecExhaust ==
    InitExhaust /\ [][NextExhaust]_vars /\ WF_vars(NextExhaust)

(* ---------------------- getCombinations on its own -------------------- *)
\* The arrays of distinct items 1..MaxLen, of every length up to MaxLen.
DistinctArrays ==
    UNION {{a \in [1..n -> 1..MaxLen] :
                \A i, j \in 1..n : i # j => a[i] # a[j]} : n \in 0..MaxLen}

InitCombinations ==
    /\ array \in DistinctArrays
    /\ k \in 0..(MaxLen + 1)
    /\ called = FALSE
    /\ result = << >>
    /\ rooms = initialRooms
    /\ numRoomsToBook = <<1>>
    /\ message = NoMessage
    /\ roomsToBook = << >>
    /\ searchMessage = NoMessage
    /\ handler = "useEffect"
    /\ afterReset = FALSE

callGetCombinations ==
    /\ ~called
    /\ called' = TRUE
    /\ result' = getCombinations(array, k)
    /\ UNCHANGED <<array, k>>
    /\ UNCHANGED hotelVars

SpecCombinations == InitCombinations /\ [][callGetCombinations]_vars

(* ====================================================================== *)
(* The specification's own notions, stated on room numbers and sets, apart *)
(* from the code above: section 3 (floor, position), 4.2 (travel time).    *)
(* ====================================================================== *)
SpecFloor(n) == n \div 100

SpecPosition(n) == n - 100 * SpecFloor(n)

SpecPairTime(a, b) ==
    IF SpecFloor(a) = SpecFloor(b)
    THEN Abs(SpecPosition(a) - SpecPosition(b))
    ELSE (SpecPosition(a) - 1) + (SpecPosition(b) - 1)
         + Abs(SpecFloor(a) - SpecFloor(b)) * 2

\* a comes before b in (floor ascending, roomNumber ascending) order
SpecBefore(a, b) ==
    \/ SpecFloor(a) < SpecFloor(b)
    \/ SpecFloor(a) = SpecFloor(b) /\ a <= b

SpecSetTime(S) ==
    IF Cardinality(S) <= 1 THEN 0
    ELSE LET first == CHOOSE a \in S : \A b \in S : SpecBefore(a, b)
             last == CHOOSE a \in S : \A b \in S : SpecBefore(b, a)
         IN  SpecPairTime(first, last)

UnoccupiedNumbers(rs) ==
    {rs[i].roomNumber : i \in {j \in DOMAIN rs : ~rs[j].isOccupied}}

OccupiedNumbers(rs) ==
    {rs[i].roomNumber : i \in {j \in DOMAIN rs : rs[j].isOccupied}}

KSubsets(S, c) == {X \in SUBSET S : Cardinality(X) = c}

OnOneFloor(X) == \A a, b \in X : SpecFloor(a) = SpecFloor(b)

SameFloorSubsets(S, c) == {X \in KSubsets(S, c) : OnOneFloor(X)}

\* Some floor has c or more unoccupied rooms.
SomeFloorQualifies(rs, c) ==
    \E n \in UnoccupiedNumbers(rs) :
        Cardinality({m \in UnoccupiedNumbers(rs) :
                        SpecFloor(m) = SpecFloor(n)}) >= c

\* X comes before Y in the include-first enumeration of a list in ascending
\* room-number order: the smallest number in one and not the other is in X.
EnumeratedBefore(X, Y) ==
    \/ X = Y
    \/ LET D == (X \ Y) \cup (Y \ X)
           least == CHOOSE a \in D : \A b \in D : a <= b
       IN  least \in X

RequestedCount == parseInt(numRoomsToBook)

ValidCount == RequestedCount \in 1..5

IsAscending(seq) == \A i, j \in DOMAIN seq : i < j => seq[i] < seq[j]

NumbersOf(seq) == [i \in DOMAIN seq |-> seq[i].roomNumber]

(* ------------------------------- C1 ----------------------------------- *)
\* C1: whenever some floor has at least count unoccupied rooms (count in
\* 1..5), the booking returns count rooms that all lie on one floor and the
\* search ends in phase 1 (the cross-floor search is not used), whatever a
\* cross-floor subset would cost.
C1_SameFloorPriority ==
    [][(handleBookRooms /\ ValidCount
            /\ SomeFloorQualifies(rooms, RequestedCount))
        => /\ Len(roomsToBook') = RequestedCount
           /\ OnOneFloor(RoomNumbers(roomsToBook'))
           /\ Cardinality(RoomNumbers(roomsToBook')) = RequestedCount
           /\ searchMessage'.kind = "FoundSameFloor"]_vars

\* count = 5 on the empty hotel: rooms 101..105 (cost 4) are returned although
\* {101,102,103,104,201} costs 2, less than every same-floor subset.
C1_Witness ==
    /\ searchMessage.kind = "FoundSameFloor"
    /\ RoomNumbers(roomsToBook) = {101, 102, 103, 104, 105}
    /\ OccupiedNumbers(rooms) = {101, 102, 103, 104, 105}
    /\ SpecSetTime({101, 102, 103, 104, 201}) = 2
    /\ LET before == UnoccupiedNumbers(rooms) \cup RoomNumbers(roomsToBook)
       IN  \A X \in SameFloorSubsets(before, 5) :
               SpecSetTime({101, 102, 103, 104, 201}) < SpecSetTime(X)

(* ------------------------------- C2 ----------------------------------- *)
\* C2: when some floor has at least count unoccupied rooms, the returned
\* subset has the least set travel time of all count-subsets of unoccupied
\* rooms lying on one floor (any floor); among those of least time it is on
\* the lowest floor and, there, the first in ascending room numbers.  On the
\* empty hotel count = 2 returns 101, 102 with cost 1.
C2_PhaseOneOptimum ==
    [][(handleBookRooms /\ ValidCount
            /\ SomeFloorQualifies(rooms, RequestedCount))
        => LET chosen == RoomNumbers(roomsToBook')
               candidates ==
                   SameFloorSubsets(UnoccupiedNumbers(rooms), RequestedCount)
           IN  /\ chosen \in candidates
               /\ IsAscending(NumbersOf(roomsToBook'))
               /\ searchMessage'.n = SpecSetTime(chosen)
               /\ \A X \in candidates :
                     /\ SpecSetTime(chosen) <= SpecSetTime(X)
                     /\ SpecSetTime(X) = SpecSetTime(chosen) =>
                           \A a \in chosen, b \in X :
                               /\ SpecFloor(a) <= SpecFloor(b)
                               /\ SpecFloor(a) = SpecFloor(b)
                                     => EnumeratedBefore(chosen, X)
               /\ (OccupiedNumbers(rooms) = {} /\ RequestedCount = 2)
                     => /\ NumbersOf(roomsToBook') = <<101, 102>>
                        /\ searchMessage'.n = 1]_vars

\* A booking that went to a higher floor although a lower floor qualified:
\* the minimum is taken over all qualifying floors.
C2_Witness ==
    /\ searchMessage.kind = "FoundSameFloor"
    /\ Len(roomsToBook) >= 2
    /\ LET before == UnoccupiedNumbers(rooms) \cup RoomNumbers(roomsToBook)
       IN  \E X \in SameFloorSubsets(before, Len(roomsToBook)) :
               /\ \A a \in X : SpecFloor(a) < roomsToBook[1].floor
               /\ SpecSetTime(X) > searchMessage.n

(* ------------------------------- C3 ----------------------------------- *)
\* C3: with count in 1..5, no floor holding count unoccupied rooms and at
\* least count rooms unoccupied, the booking returns a count-subset of the
\* unoccupied rooms of least set travel time among all such subsets, the
\* first of them in the include-first enumeration in inventory order, found
\* by the cross-floor search; "Could not find suitable rooms" does not occur.
C3_PhaseTwoOptimum ==
    [][(handleBookRooms /\ ValidCount
            /\ ~SomeFloorQualifies(rooms, RequestedCount)
            /\ Cardinality(UnoccupiedNumbers(rooms)) >= RequestedCount)
        => LET chosen == RoomNumbers(roomsToBook')
               candidates == KSubsets(UnoccupiedNumbers(rooms), RequestedCount)
           IN  /\ searchMessage'.kind = "FoundSpanning"
               /\ Len(roomsToBook') = RequestedCount
               /\ chosen \in candidates
               /\ IsAscending(NumbersOf(roomsToBook'))
               /\ searchMessage'.n = SpecSetTime(chosen)
               /\ \A X \in candidates :
                     /\ SpecSetTime(chosen) <= SpecSetTime(X)
                     /\ SpecSetTime(X) = SpecSetTime(chosen)
                           => EnumeratedBefore(chosen, X)]_vars

\* A cross-floor booking of three or more rooms that had a rival of the same
\* cost and a dearer one.
C3_Witness ==
    /\ searchMessage.kind = "FoundSpanning"
    /\ message.kind = "Booked"
    /\ Len(roomsToBook) >= 3
    /\ LET before == UnoccupiedNumbers(rooms) \cup RoomNumbers(roomsToBook)
           others == KSubsets(before, Len(roomsToBook))
                         \ {RoomNumbers(roomsToBook)}
       IN  /\ \E X \in others : SpecSetTime(X) = searchMessage.n
           /\ \E X \in others : SpecSetTime(X) > searchMessage.n

(* ------------------------------- C4 ----------------------------------- *)
\* C4: a booking with a count outside 1..5 fails with "You can book between
\* 1 and 5 rooms" whatever is free; one with a count in 1..5 and fewer free
\* rooms than that fails with "Not enough rooms available", reporting exactly
\* the number of unoccupied rooms; neither changes any room.
C4_FailureOutcomes ==
    [][handleBookRooms
        => /\ ~ValidCount
              => /\ message' = Msg("BetweenOneAndFive", 0, << >>)
                 /\ roomsToBook' = << >>
                 /\ rooms' = rooms
           /\ (ValidCount
                  /\ Cardinality(UnoccupiedNumbers(rooms)) < RequestedCount)
              => /\ message' = Msg("NotEnough",
                                   Cardinality(UnoccupiedNumbers(rooms)), << >>)
                 /\ roomsToBook' = << >>
                 /\ rooms' = rooms]_vars

\* A request for more rooms than the one or more still free.
C4_Witness ==
    /\ message.kind = "NotEnough"
    /\ message.n >= 1
    /\ message.n = Cardinality(UnoccupiedNumbers(rooms))
    /\ RequestedCount \in 2..5

(* ------------------------------- C5 ----------------------------------- *)
\* C5: every successful search returns exactly count rooms, pairwise
\* distinct, each a room of the inventory that was unoccupied when the
\* booking was requested: no room occupied by an earlier booking (or by
\* randomize) is returned again.
C5_NoDoubleBooking ==
    [][(handleBookRooms /\ Len(roomsToBook') > 0)
        => /\ Len(roomsToBook') = RequestedCount
           /\ Cardinality(RoomNumbers(roomsToBook')) = RequestedCount
           /\ \A i \in DOMAIN roomsToBook' :
                 \E j \in DOMAIN rooms :
                     /\ rooms[j] = roomsToBook'[i]
                     /\ ~rooms[j].isOccupied
           /\ RoomNumbers(roomsToBook') \cap OccupiedNumbers(rooms) = {}]_vars

\* A booking of three rooms made while other rooms were already occupied.
C5_Witness ==
    /\ message.kind = "Booked"
    /\ Len(roomsToBook) = 3
    /\ Cardinality(OccupiedNumbers(rooms)) >= 6

(* ------------------------------- C6 ----------------------------------- *)
\* C6: a successful booking sets isOccupied for exactly the returned rooms:
\* the number of occupied rooms rises by count, every other flag is kept, and
\* no step of any handler changes a room's number or floor, or the order or
\* number of the rooms.
C6_BookingEffect ==
    [][/\ (handleBookRooms /\ Len(roomsToBook') > 0)
          => /\ OccupiedNumbers(rooms') =
                    OccupiedNumbers(rooms) \cup RoomNumbers(roomsToBook')
             /\ Cardinality(OccupiedNumbers(rooms')) =
                    Cardinality(OccupiedNumbers(rooms)) + RequestedCount
             /\ \A i \in DOMAIN rooms :
                   rooms[i].roomNumber \notin RoomNumbers(roomsToBook')
                       => rooms'[i] = rooms[i]
       /\ DOMAIN rooms' = DOMAIN rooms
       /\ \A i \in DOMAIN rooms :
             /\ rooms'[i].roomNumber = initialRooms[i].roomNumber
             /\ rooms'[i].floor = initialRooms[i].floor]_vars

\* A booking of two rooms that left occupied and unoccupied rooms beside it.
C6_Witness ==
    /\ message.kind = "Booked"
    /\ Len(roomsToBook) = 2
    /\ OccupiedNumbers(rooms) \ RoomNumbers(roomsToBook) # {}
    /\ UnoccupiedNumbers(rooms) # {}

(* ------------------------------- C7 ----------------------------------- *)
\* The rooms a step turns from unoccupied to occupied.
NewlyOccupied == OccupiedNumbers(rooms') \ OccupiedNumbers(rooms)

\* A step of handleGenerateRandomOccupancy: the steps that leave it as the
\* handler that ran last (and those that change nothing).
RandomStep == handler' = "handleGenerateRandomOccupancy"

\* What every call of handleGenerateRandomOccupancy does, whatever is free:
\* it marks n distinct, previously unoccupied rooms, n being the number its
\* message reports, keeps every other flag, and n exceeds neither the number
\* of rooms that were unoccupied nor 50% of the inventory.
RandomizeMarks ==
    /\ NewlyOccupied \subseteq UnoccupiedNumbers(rooms)
    /\ OccupiedNumbers(rooms) \subseteq OccupiedNumbers(rooms')
    /\ message'.n = Cardinality(NewlyOccupied)
    /\ Cardinality(NewlyOccupied) <= Cardinality(UnoccupiedNumbers(rooms))
    /\ 2 * Cardinality(NewlyOccupied) <= Len(rooms)

\* 10% of the inventory, rounded down as Math.floor does.
TenPercent == Len(rooms) \div 10

C8_ResetThenBook ==
    [][/\ handleResetBookings => OccupiedNumbers(rooms') = {}
       /\ (message.kind = "Reset" /\ handleBookRooms /\ RequestedCount = 5)
          => /\ message'.kind = "Booked"
             /\ NumbersOf(roomsToBook') = <<101, 102, 103, 104, 105>>
             /\ searchMessage' = Msg("FoundSameFloor", 4, <<1>>)
             /\ OccupiedNumbers(rooms') = {101, 102, 103, 104, 105}]_vars

\* Five rooms booked with the message of a reset still on the page.
C8_Witness ==
    /\ afterReset
    /\ message = Msg("Booked", 0, <<101, 102, 103, 104, 105>>)
    /\ OccupiedNumbers(rooms) = {101, 102, 103, 104, 105}
    /\ RequestedCount = 5

(* ------------------------------- C9 ----------------------------------- *)
\* The positions in array of the items of combo, in combo's order.
IndexTuple(combo) ==
    [i \in DOMAIN combo |-> CHOOSE j \in DOMAIN array : array[j] = combo[i]]

\* Lexicographic order on two tuples of the same length.
LexLess(s, t) ==
    \E i \in DOMAIN s :
        /\ s[i] < t[i]
        /\ \A j \in 1..(i - 1) : s[j] = t[j]

\* C9: for an array of n distinct items and 0 <= k <= n, getCombinations
\* returns every k-element subset exactly once, each in input order, the
\* first being the first k items, in lexicographic order of the index
\* tuples; for k > n it returns nothing.
C9_Combinations ==
    called =>
        /\ k > Len(array) => result = << >>
        /\ k <= Len(array) =>
              /\ {Range(result[i]) : i \in DOMAIN result}
                     = KSubsets(Range(array), k)
              /\ Len(result) = Cardinality(KSubsets(Range(array), k))
              /\ \A i \in DOMAIN result :
                    /\ Len(result[i]) = k
                    /\ Range(result[i]) \subseteq Range(array)
                    /\ IsAscending(IndexTuple(result[i]))
              /\ result[1] = SubSeq(array, 1, k)
              /\ \A i, j \in DOMAIN result :
                    i < j => LexLess(IndexTuple(result[i]),
                                     IndexTuple(result[j]))

\* The six pairs of a four-item array that is not in ascending order.
C9_Witness ==
    /\ called
    /\ Len(array) = 4
    /\ array[1] > array[2]
    /\ k = 2
    /\ Len(result) = 6

(* ------------------------------- C10 ---------------------------------- *)
\* C10: with no reset, the set of occupied rooms never shrinks; a booking with
\* count in 1..5 succeeds whenever count rooms are unoccupied; so a caller who
\* keeps requesting a fixed count is eventually told "Not enough rooms
\* available", and from then on fewer than count rooms stay unoccupied and
\* every further request is answered the same.
C10_Exhaustion ==
    /\ [][OccupiedNumbers(rooms) \subseteq OccupiedNumbers(rooms')]_vars
    /\ [][(handleBookRooms /\ ValidCount
              /\ Cardinality(UnoccupiedNumbers(rooms)) >= RequestedCount)
          => /\ message'.kind = "Booked"
             /\ Len(roomsToBook') = RequestedCount
             /\ Cardinality(UnoccupiedNumbers(rooms')) =
                    Cardinality(UnoccupiedNumbers(rooms)) - RequestedCount]_vars
    /\ <>(message.kind = "NotEnough")
    /\ [][Cardinality(UnoccupiedNumbers(rooms)) < RequestedCount
          => Cardinality(UnoccupiedNumbers(rooms')) < RequestedCount]_vars
    /\ [][(handleBookRooms
              /\ Cardinality(UnoccupiedNumbers(rooms)) < RequestedCount)
          => message'.kind = "NotEnough"]_vars

\* A caller asking for three rooms is refused with one or two still free.
C10_Witness ==
    /\ message.kind = "NotEnough"
    /\ RequestedCount = 3
    /\ Cardinality(UnoccupiedNumbers(rooms)) \in 1..2
    /\ Cardinality(OccupiedNumbers(rooms)) >= 1

=============================================================================
